---- MODULE Spec2Model ----
(***************************************************************************)
(* Scene-interaction engine of the Cogni-CAD viewer: the zustand store     *)
(* (uiStore.js) and the ThreeCanvas component tree (ErrorBoundary,         *)
(* MeasurementMarkers, ModelViewer, CameraController, ThreeCanvas).        *)
(*                                                                         *)
(* Numbers.  Lengths are integers on a grid (one grid unit = one model     *)
(* unit).  Material scalars and colour channels are in hundredths          *)
(* (0.9 = 90).  A normalized direction is a fixed-point vector of length   *)
(* 100.  A division that the code does in floating point truncates toward  *)
(* zero here.                                                              *)
(***************************************************************************)
EXTENDS Integers, Sequences, FiniteSets, TLC

(***************************************************************************)
(* Bounds of the model                                                     *)
(***************************************************************************)
MaxClicks == 4
MaxLoads == 2
MaxRequests == 2
\* The camera distances the wheel zoom is followed over.
MinCameraDistance == 100
MaxCameraDistance == 1100
\* The number of orientation-cube drags followed.
MaxDrags == 3
\* The distance, per coordinate, at which the truncating interpolation stops.
Epsilon == 9

(***************************************************************************)
(* Program constants                                                       *)
(***************************************************************************)
ResetLength == 2
LerpPercent == 10
ExplodePercent == 50
FallbackScale == 350
Opacity == 90
MetalnessTrigger == 90
MetalnessValue == 60
RoughnessTrigger == 10
RoughnessValue == 30
NearWhite == 92
GrayChannel == 75
SnapPercent == 2
VertexBiasPercent == 90
InitialCameraZ == 500
FallbackSize == 10
FallbackDistance == 10
TanHalfFovMicro == 466308
\* Angles are kept in 1/10000 rad; sines and cosines in 1/10000.
AngleScale == 10000
Pi == 31416
HalfPi == 15708
\* rotSpeed = 0.01 rad per pixel; the polar clamp [0.01, PI - 0.01].
RotSpeed == 100
PolarMargin == 100
\* The zoom limits are kept in 1/100000 of a scene unit: the floor 0.01, the
\* divisor and the factor of the limits, the maxDistance OrbitControls starts
\* with (Infinity).
LengthUnit == 100000
MinDistanceFloor == 1000
MinDistanceDivisor == 10000
MaxDistanceFactor == 100
Unbounded == 2147483647

Null == "null"
Undefined == "undefined"
NoColor == <<>>
DefaultUrl == "/models/V3_DIRT_BIKE_3.compressed.glb"
OtherUrl == "/uploads/part.glb"
BadUrl == "/uploads/broken.glb"
Urls == {DefaultUrl, OtherUrl, BadUrl}
Views == {"front", "back", "left", "right", "top", "bottom"}

(***************************************************************************)
(* Vectors (THREE.Vector3) and integer helpers                             *)
(***************************************************************************)
Zero3 == <<0, 0, 0>>
VAdd(a, b) == <<a[1] + b[1], a[2] + b[2], a[3] + b[3]>>
VSub(a, b) == <<a[1] - b[1], a[2] - b[2], a[3] - b[3]>>
Dot(a, b) == a[1] * b[1] + a[2] * b[2] + a[3] * b[3]
LenSq(a) == Dot(a, a)
DistSq(a, b) == LenSq(VSub(a, b))
VScale(a, k) == <<a[1] * k, a[2] * k, a[3] * k>>
TruncDiv(a, b) == IF a >= 0 THEN a \div b ELSE -((-a) \div b)
VDiv(a, k) == <<TruncDiv(a[1], k), TruncDiv(a[2], k), TruncDiv(a[3], k)>>
Min(a, b) == IF a <= b THEN a ELSE b
Max(a, b) == IF a >= b THEN a ELSE b
Abs(a) == IF a >= 0 THEN a ELSE -a

RECURSIVE SqrtSearch(_, _, _)
SqrtSearch(n, lo, hi) ==
  IF hi - lo <= 1 THEN lo
  ELSE LET mid == (lo + hi) \div 2
       IN IF mid * mid <= n THEN SqrtSearch(n, mid, hi) ELSE SqrtSearch(n, lo, mid)
\* Math.sqrt on the grid: the integer part of the root.
ISqrt(n) == SqrtSearch(n, 0, 46340)
\* Rounds sqrt(n) to the nearest integer, as toFixed rounds a float.
RoundSqrt(n) == LET r == ISqrt(n) IN IF n - r * r > r THEN r + 1 ELSE r

(***************************************************************************)
(* Assets.  A GLB asset is a flat scene: every mesh is a child of the      *)
(* scene root, which carries the identity rotation, so a mesh's world      *)
(* matrix is the translation by its position; its geometry is one          *)
(* triangle (face a, b, c).                                                *)
(***************************************************************************)
Triangle == <<Zero3, <<40, 0, 0>>, <<0, 40, 0>>>>
PlainMaterial ==
  [color |-> <<50, 50, 50>>, map |-> FALSE, pbr |-> TRUE, metalness |-> 0,
   roughness |-> 50, opacity |-> 100, side |-> "front"]
SourceColors == {<<100, 100, 100>>, <<95, 93, 96>>, <<100, 100, 92>>, <<20, 40, 80>>}
SourceMaterials ==
  [color : SourceColors, map : BOOLEAN, pbr : BOOLEAN, metalness : {0, 80, 95},
   roughness : {5, 20, 50}, opacity : {100}, side : {"front"}]
\* What a mesh node of an asset may lack: its geometry's position attribute, its
\* geometry, its material.
Lacks == {"nothing", "position", "geometry", "material"}
SourceMesh(pos, mat) ==
  [position |-> pos, tri |-> Triangle, material |-> mat, lacks |-> "nothing"]
\* The asset behind each URL: the default bike has two parts left and right of
\* the centre; the uploaded part has three, one of them centred on the assembly.
Catalogue(mat) ==
  [u \in Urls |->
     IF u = DefaultUrl
       THEN <<SourceMesh(<<-50, 0, 0>>, mat), SourceMesh(<<50, 0, 0>>, PlainMaterial)>>
     ELSE IF u = OtherUrl
       THEN <<SourceMesh(Zero3, mat), SourceMesh(<<30, 40, 0>>, PlainMaterial),
              SourceMesh(<<15, 20, 0>>, mat)>>
     ELSE <<>>]
\* loadAsset outcome: the GLB behind BadUrl does not parse, the others load.
Loads(u) == u # BadUrl

VARIABLES
  \* uiStore
  measureMode, measurePoints, colorMode, explodeMode, requestedView, requestedColor,
  modelRotation,
  \* ThreeCanvas
  modelUrl, cameraControls, camera, controls, mainModel, modelMaxDim,
  initialCameraSet, autoRotate, sceneHelpersRef, hasError,
  \* ModelViewer (the instance mounted under key = modelUrl)
  mv, gen, scene, isInitialized, originalPositions, explosionVectors,
  originalMaterials, modelSize, selectedFaceVerts,
  \* MeasurementMarkers
  currentWorldPoints, labels,
  \* the assets behind the URLs
  source,
  \* history: the qualifying clicks since the buffer was last cleared, the view
  \* requests written and the camera placements performed, the last handler run
  clickLog, lastSnap, dragLog, requestLog, appliedLog, lastOp

storeVars == <<measureMode, measurePoints, colorMode, explodeMode, requestedView,
               requestedColor, modelRotation>>
canvasVars == <<modelUrl, cameraControls, camera, controls, mainModel, modelMaxDim,
                initialCameraSet, autoRotate, sceneHelpersRef, hasError>>
viewerVars == <<mv, gen, scene, isInitialized, originalPositions, explosionVectors,
                originalMaterials, modelSize, selectedFaceVerts>>
markerVars == <<currentWorldPoints, labels>>
historyVars == <<clickLog, lastSnap, dragLog, requestLog, appliedLog>>
vars == <<storeVars, canvasVars, viewerVars, markerVars, source, historyVars, lastOp>>

EmptyMap == [u \in {} |-> Zero3]

\* The state after create(...) of the store and the first commit of ThreeCanvas
\* (its modelUrl effect has switched auto-rotation on for the default bike): the
\* default model is suspended in useGLTF, the Canvas children are not mounted.
InitState ==
  /\ measureMode = FALSE /\ measurePoints = <<>>
  /\ colorMode = FALSE /\ explodeMode = FALSE
  /\ requestedView = Null /\ requestedColor = NoColor
  /\ modelRotation = 0
  /\ modelUrl = DefaultUrl
  /\ cameraControls = FALSE
  /\ camera = [position |-> <<0, 0, InitialCameraZ>>, up |-> <<0, 1, 0>>]
  /\ controls = [target |-> Zero3, enableDamping |-> TRUE, autoRotate |-> FALSE,
                 minDistance |-> 0, maxDistance |-> Unbounded]
  /\ mainModel = [set |-> FALSE, turns |-> 0]
  /\ modelMaxDim = 0
  /\ initialCameraSet = FALSE
  /\ autoRotate = TRUE
  /\ sceneHelpersRef = 0
  /\ hasError = FALSE
  /\ mv = "loading" /\ gen = 0 /\ scene = <<>>
  /\ isInitialized = FALSE
  /\ originalPositions = EmptyMap /\ explosionVectors = EmptyMap
  /\ originalMaterials = EmptyMap
  /\ modelSize = 0
  /\ selectedFaceVerts = <<>>
  /\ currentWorldPoints = <<>> /\ labels = <<>>
  /\ clickLog = <<>> /\ lastSnap = <<>> /\ dragLog = <<>>
  /\ requestLog = <<>> /\ appliedLog = <<>>
  /\ lastOp = "init"

Init == InitState /\ source = Catalogue(PlainMaterial)
InitAnyMaterial == InitState /\ source \in {Catalogue(m) : m \in SourceMaterials}
\* The default asset with a third node that lacks something.
DefectiveCatalogue(lack) ==
  [Catalogue(PlainMaterial) EXCEPT
     ![DefaultUrl] = Append(@, [SourceMesh(<<0, 60, 0>>, PlainMaterial)
                                  EXCEPT !.lacks = lack])]
InitDefective == InitState /\ source \in {DefectiveCatalogue(lack) : lack \in Lacks}


(***************************************************************************)
(* ModelViewer: clone, normalization effect, colour effect                 *)
(***************************************************************************)
Indices(sc) == 1..Len(sc)
Uuids(sc) == {sc[i].uuid : i \in Indices(sc)}
MeshOf(sc, u) == sc[CHOOSE i \in Indices(sc) : sc[i].uuid = u]

\* scene.clone(): a copy of the source graph whose nodes get fresh uuids; the
\* materials are still the source's own objects, unchanged.
CloneScene(src, g) ==
  [i \in 1..Len(src) |->
     [uuid |-> <<g, i>>, position |-> src[i].position, tri |-> src[i].tri,
      material |-> src[i].material, ownMaterial |-> FALSE, lacks |-> src[i].lacks]]

\* THREE.Box3: setFromObject, union, getCenter, getSize. The box of a mesh
\* without positions is empty: the union skips it and its centre is the origin.
HasPositions(m) == m.lacks \notin {"position", "geometry"}
TriMin(t) == [k \in 1..3 |-> Min(t[1][k], Min(t[2][k], t[3][k]))]
TriMax(t) == [k \in 1..3 |-> Max(t[1][k], Max(t[2][k], t[3][k]))]
MeshBox(m) == [min |-> VAdd(m.position, TriMin(m.tri)),
               max |-> VAdd(m.position, TriMax(m.tri))]
RECURSIVE SceneBoxFrom(_, _, _)
SceneBoxFrom(sc, i, box) ==
  IF i > Len(sc) THEN box
  ELSE IF ~HasPositions(sc[i]) THEN SceneBoxFrom(sc, i + 1, box)
  ELSE LET b == MeshBox(sc[i])
       IN SceneBoxFrom(sc, i + 1,
            [min |-> [k \in 1..3 |-> Min(box.min[k], b.min[k])],
             max |-> [k \in 1..3 |-> Max(box.max[k], b.max[k])]])
SceneBox(sc) == SceneBoxFrom(sc, 2, MeshBox(sc[1]))
BoxCenter(b) == VDiv(VAdd(b.min, b.max), 2)
BoxSize(b) == VSub(b.max, b.min)
MeshCenter(m) == IF HasPositions(m) THEN BoxCenter(MeshBox(m)) ELSE Zero3

\* Vector3.normalize() in fixed point: the result has length 100; the zero
\* vector stays zero (three.js divides by length() || 1).
Normalize(v) ==
  IF LenSq(v) = 0 THEN Zero3
  ELSE LET len == ISqrt(LenSq(v) * 10000)
       IN <<TruncDiv(v[1] * 10000, len), TruncDiv(v[2] * 10000, len),
            TruncDiv(v[3] * 10000, len)>>

\* Steps A-D of the explosion vector: world direction from the assembly centre
\* to the part's centre, +Y for a centred part, taken into the parent's frame
\* (the identity for a flat scene) and normalized.
\* The direction without the fallback of step C.
ExplosionVectorNoFallback(m, globalCenter) ==
  Normalize(VSub(MeshCenter(m), globalCenter))
ExplosionVector(m, globalCenter) ==
  LET dir == Normalize(VSub(MeshCenter(m), globalCenter))
      dirWorld == IF LenSq(dir) = 0 THEN <<0, 100, 0>> ELSE dir
  IN Normalize(dirWorld)

\* The material fixes of the normalization pass, applied to the clone of the
\* mesh's material.
NormalizedMaterial(mat) ==
  [mat EXCEPT
     !.side = "double",
     !.opacity = Opacity,
     !.metalness = IF mat.pbr /\ mat.metalness > MetalnessTrigger
                     THEN MetalnessValue ELSE mat.metalness,
     !.roughness = IF mat.pbr /\ mat.roughness < RoughnessTrigger
                     THEN RoughnessValue ELSE mat.roughness,
     !.color = IF ~mat.map /\ mat.color[1] > NearWhite /\ mat.color[2] > NearWhite
                  /\ mat.color[3] > NearWhite
                 THEN <<GrayChannel, GrayChannel, GrayChannel>> ELSE mat.color]

\* A pass that fixes the material in place.
MaterialKept(mesh) == mesh
\* child.material = child.material.clone(): from here on the mesh has a
\* material object of its own.
MaterialClone(mesh) == [mesh EXCEPT !.ownMaterial = TRUE]

\* The source graph after the writes that took the clone to sc: a write to a
\* material object the clone still shares with the source is a write to the
\* source's material.
WrittenThrough(src, sc) ==
  [i \in Indices(src) |->
     IF i \in Indices(sc) /\ ~sc[i].ownMaterial
       THEN [src[i] EXCEPT !.material = sc[i].material]
       ELSE src[i]]
SourceAfter(sc) ==
  IF sc = <<>> THEN source ELSE [source EXCEPT ![modelUrl] = WrittenThrough(@, sc)]

\* map.has(uuid) || map.set(uuid, value): an entry already there is kept.
SetIfAbsent(map, fresh) ==
  [u \in (DOMAIN map) \cup (DOMAIN fresh) |->
     IF u \in DOMAIN map THEN map[u] ELSE fresh[u]]

\* originalMaterials.set(uuid, child.material.clone()): the snapshot is taken
\* before the fixes are applied.
CapturedMaterial(mat) == mat

\* The colour effect over the scene: a tint (the requested colour, or a colour
\* per mesh drawn by Math.random()) or the restore from originalMaterials.
TintColors == {<<90, 20, 20>>, <<20, 90, 20>>}
RequestedColors == {<<100, 0, 0>>}
\* A restore that leaves the material as it is.
RestoredColorKept(mesh, origs) == mesh.material.color
RestoredColor(mesh, origs) ==
  IF mesh.uuid \in DOMAIN origs THEN origs[mesh.uuid].color ELSE mesh.material.color
\* The draws of Math.random() that matter: one colour per mesh when the effect
\* generates the tint, none otherwise.
TintChoices(sc, mode, rc) ==
  IF mode /\ rc = NoColor THEN [Indices(sc) -> TintColors] ELSE {<<>>}
ColorEffect(sc, mode, rc, tint, origs) ==
  [i \in Indices(sc) |->
     [sc[i] EXCEPT !.material.color =
        IF mode THEN (IF rc # NoColor THEN rc ELSE tint[i])
        ELSE RestoredColor(sc[i], origs)]]

\* A ref that outlives the instance.
FreshRefKept(old) == old
\* useRef(new Map()) of a ModelViewer instance: key={modelUrl} makes a new
\* instance, with new refs, for every model URL.
FreshRef(old) == EmptyMap


(***************************************************************************)
(* snapToFeature, the store's addMeasurePoint, the labels                  *)
(***************************************************************************)
\* Line3.closestPointToPoint(point, true, target): the clamped projection.
ClosestOnSegment(p, v1, v2) ==
  LET d == VSub(v2, v1)
      num == Dot(VSub(p, v1), d)
      den == LenSq(d)
  IN IF num <= 0 THEN v1
     ELSE IF num >= den THEN v2
     ELSE VAdd(v1, VDiv(VScale(d, num), den))

\* The running (closestPoint, minMsgDist) pair of snapToFeature; minMsgDist is
\* kept squared, -1 stands for Infinity.
CheckVertex(best, v, p) ==
  LET d2 == DistSq(v, p)
  IN IF best.d2 < 0 \/ d2 < best.d2 THEN [pt |-> v, d2 |-> d2] ELSE best
CheckEdge(best, v1, v2, p) ==
  LET c == ClosestOnSegment(p, v1, v2)
      d2 == DistSq(c, p)
  IN IF d2 * 10000 < best.d2 * VertexBiasPercent * VertexBiasPercent
       THEN [pt |-> c, d2 |-> d2] ELSE best
\* (closestPoint, minMsgDist) after the vertices and the edges AB, BC, CA.
SnapCandidate(p, verts) ==
  LET b0 == [pt |-> p, d2 |-> -1]
      b1 == CheckVertex(CheckVertex(CheckVertex(b0, verts[1], p), verts[2], p), verts[3], p)
      b2 == CheckEdge(b1, verts[1], verts[2], p)
      b3 == CheckEdge(b2, verts[2], verts[3], p)
  IN CheckEdge(b3, verts[3], verts[1], p)
\* A snap radius that does not follow the zoom: the one of the initial camera.
SnapThresholdFixed(camPos, p) == InitialCameraZ * InitialCameraZ * SnapPercent * SnapPercent
\* threshold = cam.position.distanceTo(point) * 0.02, squared and times 10000.
SnapThreshold(camPos, p) == DistSq(camPos, p) * SnapPercent * SnapPercent
snapToFeature(p, verts, camPos) ==
  LET best == SnapCandidate(p, verts)
  IN IF best.d2 * 10000 < SnapThreshold(camPos, p) THEN best.pt ELSE p

\* The reducer of addMeasurePoint.
addMeasurePoint(points, point) ==
  IF Len(points) >= ResetLength THEN <<point>> ELSE Append(points, point)

\* 16 Area^2 of the triangle with squared sides a2, b2, c2 (Heron's formula
\* without the roots); the code's test area > 0.0001 is HeronSq > 0 on the grid.
HeronSq(a2, b2, c2) == 4 * a2 * b2 - (a2 + b2 - c2) * (a2 + b2 - c2)

\* The label effect of MeasurementMarkers; a text is the number printed by
\* toFixed(2), in hundredths.
DistanceLabel(p1, p2) ==
  [kind |-> "distance", pos |-> VDiv(VAdd(p1, p2), 2),
   text |-> RoundSqrt(DistSq(p1, p2) * 10000)]
DiameterLabel(p1, p2, p3) ==
  LET a2 == DistSq(p1, p2)
      b2 == DistSq(p2, p3)
      c2 == DistSq(p3, p1)
  IN [kind |-> "diameter", pos |-> VDiv(VAdd(VAdd(p1, p2), p3), 3),
      text |-> RoundSqrt((40000 * a2 * b2 * c2) \div HeronSq(a2, b2, c2))]
LabelsOf(pts) ==
  IF Len(pts) < 2 THEN <<>>
  ELSE (IF Len(pts) = 2 THEN <<DistanceLabel(pts[1], pts[2])>> ELSE <<>>)
       \o (IF Len(pts) = 3
              /\ HeronSq(DistSq(pts[1], pts[2]), DistSq(pts[2], pts[3]),
                         DistSq(pts[3], pts[1])) > 0
             THEN <<DiameterLabel(pts[1], pts[2], pts[3])>> ELSE <<>>)

\* Markers that stay where they were captured.
WorldPointsStatic(points, sc, ref, g) == [k \in 1..Len(points) |-> points[k].point]
\* useFrame of MeasurementMarkers: the world position of each stored point from
\* its localPoint and the world matrix of its object, looked up by uuid in the
\* scene that sceneRef holds; mp.point when the object is not found.
WorldPoints(points, sc, ref, g) ==
  [k \in 1..Len(points) |->
     IF ref = g /\ points[k].objectUuid \in Uuids(sc)
       THEN VAdd(MeshOf(sc, points[k].objectUuid).position, points[k].localPoint)
       ELSE points[k].point]

(***************************************************************************)
(* Explode interpolation and camera fit                                    *)
(***************************************************************************)
\* An expansion distance that ignores the flag.
ExpandDistAlways(mode, size) ==
  ((IF size > 0 THEN size ELSE FallbackScale) * ExplodePercent) \div 100
ExpandDist(mode, size) ==
  IF mode THEN ((IF size > 0 THEN size ELSE FallbackScale) * ExplodePercent) \div 100
  ELSE 0
\* A step that goes past the target.
LerpOvershoot(p, target) == VAdd(p, VDiv(VScale(VSub(target, p), 110), 100))
\* Vector3.lerp(target, 0.1)
Lerp(p, target) == VAdd(p, VDiv(VScale(VSub(target, p), LerpPercent), 100))
ExplodeTarget(orig, dir, dist) == VAdd(orig, VDiv(VScale(dir, dist), 100))
ExplodeStep(sc, mode, size, origs, dirs) ==
  [i \in Indices(sc) |->
     IF sc[i].uuid \in DOMAIN origs /\ sc[i].uuid \in DOMAIN dirs
       THEN [sc[i] EXCEPT !.position =
               Lerp(@, ExplodeTarget(origs[sc[i].uuid], dirs[sc[i].uuid],
                                     ExpandDist(mode, size)))]
       ELSE sc[i]]

\* (size / 2) / tan(fov / 2) * 1.5 for the Canvas camera's fov of 50 degrees.
FitDistance(size) == (((size * 1000000) \div (2 * TanHalfFovMicro)) * 3) \div 2
MaxDim(sc) == LET sz == BoxSize(SceneBox(sc)) IN Max(sz[1], Max(sz[2], sz[3]))


(***************************************************************************)
(* ModelViewer life cycle                                                  *)
(***************************************************************************)
\* A guard that does not wait for the normalization pass.
MountedOnly == mv = "mounted"
\* if (!isInitialized.current) return; of the mounted instance's useFrame
\* callback and colour effect.
Initialized == mv = "mounted" /\ isInitialized

Unmounted ==
  /\ scene' = <<>>
  /\ isInitialized' = FALSE
  /\ originalPositions' = FreshRef(originalPositions)
  /\ explosionVectors' = FreshRef(explosionVectors)
  /\ originalMaterials' = FreshRef(originalMaterials)
  /\ modelSize' = 0
  /\ selectedFaceVerts' = <<>>

\* useGLTF(url) resolves: the ModelViewer instance renders with its clone of
\* the scene; its effects have not run yet.
ModelViewerMount ==
  /\ mv = "loading" /\ ~hasError /\ modelUrl # Null /\ Loads(modelUrl)
  /\ gen < MaxLoads
  /\ gen' = gen + 1
  /\ scene' = CloneScene(source[modelUrl], gen + 1)
  /\ mv' = "mounted"
  /\ isInitialized' = FALSE
  /\ originalPositions' = FreshRef(originalPositions)
  /\ explosionVectors' = FreshRef(explosionVectors)
  /\ originalMaterials' = FreshRef(originalMaterials)
  /\ modelSize' = 0
  /\ selectedFaceVerts' = <<>>
  /\ lastOp' = "mount"
  /\ UNCHANGED <<storeVars, canvasVars, markerVars, source, historyVars>>

\* An error boundary that does not record the error.
ErrorNotRecorded == FALSE
\* static getDerivedStateFromError(error): { hasError: true, error }
getDerivedStateFromError == TRUE
\* useGLTF(url) throws: ErrorBoundary.getDerivedStateFromError.
ModelViewerLoadError ==
  /\ mv = "loading" /\ ~hasError /\ modelUrl # Null /\ ~Loads(modelUrl)
  /\ hasError' = getDerivedStateFromError
  /\ mv' = "error"
  /\ lastOp' = "loadError"
  /\ UNCHANGED <<storeVars, modelUrl, cameraControls, camera, controls, mainModel,
                 modelMaxDim, initialCameraSet, autoRotate, sceneHelpersRef, gen,
                 scene, isInitialized, originalPositions, explosionVectors,
                 originalMaterials, modelSize, selectedFaceVerts, markerVars, source,
                 historyVars>>

\* The passive effects of the mount commit, in declaration order: the colour
\* effect (returns: not initialized), setSceneRef, the normalization effect
\* (which sets isInitialized), the colour effect again.
\* A TypeError thrown inside an effect unmounts the subtree up to the
\* ErrorBoundary, the instance and its refs with it.
\* child.geometry.attributes.color of a mesh whose geometry is undefined.
NormalizationThrows(sc) == \E i \in Indices(sc) : sc[i].lacks = "geometry"
\* child.material.needsUpdate = true of a mesh whose material is undefined.
ColorEffectThrows(sc) == \E i \in Indices(sc) : sc[i].lacks = "material"
ModelViewerEffects ==
  /\ mv = "mounted" /\ ~isInitialized
  /\ IF NormalizationThrows(scene) \/ ColorEffectThrows(scene)
       THEN /\ hasError' = getDerivedStateFromError
            /\ mv' = "error"
            /\ UNCHANGED <<scene, source, sceneHelpersRef, isInitialized,
                           originalPositions, explosionVectors, originalMaterials,
                           modelSize>>
       ELSE /\ LET center == BoxCenter(SceneBox(scene))
                   keys == Uuids(scene)
                   positions == SetIfAbsent(originalPositions,
                                            [u \in keys |-> MeshOf(scene, u).position])
                   vectors == SetIfAbsent(explosionVectors,
                                          [u \in keys |->
                                             ExplosionVector(MeshOf(scene, u), center)])
                   materials == SetIfAbsent(originalMaterials,
                                            [u \in keys |->
                                               CapturedMaterial(MeshOf(scene, u).material)])
                   normalized == [i \in Indices(scene) |->
                                    [MaterialClone(scene[i]) EXCEPT
                                       !.material = NormalizedMaterial(@)]]
               IN /\ originalPositions' = positions
                  /\ explosionVectors' = vectors
                  /\ originalMaterials' = materials
                  /\ modelSize' = ISqrt(LenSq(BoxSize(SceneBox(scene))))
                  /\ \E tint \in TintChoices(scene, colorMode, requestedColor) :
                       scene' = ColorEffect(normalized, colorMode, requestedColor,
                                            tint, materials)
            /\ source' = SourceAfter(scene')
            /\ sceneHelpersRef' = gen
            /\ isInitialized' = TRUE
            /\ UNCHANGED <<hasError, mv>>
  /\ lastOp' = "effects"
  /\ UNCHANGED <<storeVars, modelUrl, cameraControls, camera, controls, mainModel,
                 modelMaxDim, initialCameraSet, autoRotate, gen,
                 selectedFaceVerts, markerVars, historyVars>>

\* CameraController's mount effect: onReady({camera, controls}).
CameraControlsReady ==
  /\ ~cameraControls
  /\ cameraControls' = TRUE
  /\ controls' = [controls EXCEPT !.autoRotate = autoRotate]
  /\ lastOp' = "controlsReady"
  /\ UNCHANGED <<storeVars, modelUrl, camera, mainModel, modelMaxDim, initialCameraSet,
                 autoRotate, sceneHelpersRef, hasError, viewerVars, markerVars, source,
                 historyVars>>

\* Center's onCentered -> handleModelReady(container, maxDim); Center calls it
\* again on later renders of ModelViewer.  The container keeps the identity
\* rotation (the effect that turned it by modelRotation is commented out).
\* A fit that does not look at the guard.
GuardIgnored(done) == TRUE
\* !initialCameraSet.current
InitialFitDue(done) == ~done
HandleModelReady ==
  /\ mv = "mounted"
  /\ LET maxDim == MaxDim(scene)
         fit == cameraControls /\ maxDim > 0 /\ InitialFitDue(initialCameraSet)
     IN /\ mainModel' = [set |-> TRUE, turns |-> 0]
        /\ modelMaxDim' = maxDim
        /\ camera' = IF fit THEN [camera EXCEPT !.position = <<0, 0, FitDistance(maxDim)>>]
                     ELSE camera
        /\ controls' = IF fit THEN [controls EXCEPT !.target = Zero3] ELSE controls
        /\ initialCameraSet' = (initialCameraSet \/ fit)
  /\ lastOp' = "modelReady"
  /\ UNCHANGED <<storeVars, modelUrl, cameraControls, autoRotate, sceneHelpersRef,
                 hasError, viewerVars, markerVars, source, historyVars>>


(***************************************************************************)
(* Store setters with the effects they trigger                             *)
(***************************************************************************)
\* The keys of the object create(...) returns in uiStore.js.
StoreKeys ==
  {"measureMode", "setMeasureMode", "measurePoints", "addMeasurePoint", "colorMode",
   "setColorMode", "explodeMode", "setExplodeMode", "modelRotation",
   "setModelRotation", "requestedView", "setRequestedView", "latestResult",
   "setLatestResult"}

SetMeasureMode(active) ==
  /\ measureMode' = active
  /\ measurePoints' = <<>>
  /\ clickLog' = <<>>
  /\ lastSnap' = <<>>
  /\ lastOp' = "setMeasureMode"
  /\ UNCHANGED <<colorMode, explodeMode, requestedView, requestedColor, modelRotation,
                 canvasVars, viewerVars, markerVars, source, requestLog, appliedLog,
                 dragLog>>

SetExplodeMode(active) ==
  /\ explodeMode' = active
  /\ lastOp' = "setExplodeMode"
  /\ UNCHANGED <<measureMode, measurePoints, colorMode, requestedView, requestedColor,
                 modelRotation, canvasVars, viewerVars, markerVars, source, historyVars>>

\* The colour effect runs after the render in which one of its dependencies
\* (colorMode, requestedColor) has changed, when the instance is initialized.
ColorChange(mode, rc) ==
  IF Initialized /\ (mode # colorMode \/ rc # requestedColor)
    THEN \E tint \in TintChoices(scene, mode, rc) :
           scene' = ColorEffect(scene, mode, rc, tint, originalMaterials)
    ELSE scene' = scene

SetColorMode(active) ==
  /\ colorMode' = active
  /\ ColorChange(active, requestedColor)
  /\ source' = SourceAfter(scene')
  /\ lastOp' = IF mv = "mounted" /\ isInitialized /\ active # colorMode
                 THEN (IF active THEN "tint" ELSE "restore")
                 ELSE "setColorMode"
  /\ UNCHANGED <<measureMode, measurePoints, explodeMode, requestedView,
                 requestedColor, modelRotation, canvasVars, mv, gen, isInitialized,
                 originalPositions, explosionVectors, originalMaterials, modelSize,
                 selectedFaceVerts, markerVars, historyVars>>

\* The command layer names a colour (or withdraws it).
SetRequestedColor(rc) ==
  /\ rc # requestedColor
  /\ requestedColor' = rc
  /\ ColorChange(colorMode, rc)
  /\ source' = SourceAfter(scene')
  /\ lastOp' = "setRequestedColor"
  /\ UNCHANGED <<measureMode, measurePoints, colorMode, explodeMode, requestedView,
                 modelRotation, canvasVars, mv, gen, isInitialized, originalPositions,
                 explosionVectors, originalMaterials, modelSize, selectedFaceVerts,
                 markerVars, historyVars>>

\* ChatPanel "rotate": setModelRotation (quarter turns about Y); no effect of
\* ThreeCanvas reads the value.
SetModelRotation(turns) ==
  /\ turns # modelRotation
  /\ modelRotation' = turns
  /\ lastOp' = "setModelRotation"
  /\ UNCHANGED <<measureMode, measurePoints, colorMode, explodeMode, requestedView,
                 requestedColor, canvasVars, viewerVars, markerVars, source,
                 historyVars>>

(***************************************************************************)
(* Measurement: handleClick, onPointerMissed                               *)
(***************************************************************************)
\* The pointer events tried: <<mesh index, point of its face in local space>> -
\* on a vertex, inside the face away from every feature, next to an edge.
Hits == {<<1, Zero3>>, <<1, <<12, 12, 0>>>>, <<2, <<20, 1, 0>>>>}
Buttons == {0, 2}
FaceNormal == <<0, 0, 1>>
WorldTri(mesh) == [k \in 1..3 |-> VAdd(mesh.position, mesh.tri[k])]

\* handleClick(e) for a hit on mesh `obj` at the point `local` of its face.
HandleClick(button, obj, local) ==
  /\ mv = "mounted" /\ obj \in Indices(scene)
  /\ HasPositions(scene[obj])
  /\ button = 0
  /\ LET mesh == scene[obj]
         point == VAdd(mesh.position, local)
         snapped == snapToFeature(point, WorldTri(mesh), camera.position)
         entry == [point |-> snapped,
                   localPoint |-> VSub(snapped, mesh.position),
                   objectUuid |-> mesh.uuid,
                   normal |-> FaceNormal]
     IN /\ selectedFaceVerts' = WorldTri(mesh)
        /\ IF measureMode
             THEN /\ Len(clickLog) < MaxClicks
                  /\ measurePoints' = addMeasurePoint(measurePoints, entry)
                  /\ clickLog' = Append(clickLog, entry)
                  /\ lastSnap' = <<[point |-> point, verts |-> WorldTri(mesh),
                                    cam |-> camera.position,
                                    candidate |-> SnapCandidate(point, WorldTri(mesh)),
                                    result |-> snapped]>>
             ELSE UNCHANGED <<measurePoints, clickLog, lastSnap>>
  /\ lastOp' = "click"
  /\ UNCHANGED <<measureMode, colorMode, explodeMode, requestedView, requestedColor,
                 modelRotation, canvasVars, mv, gen, scene, isInitialized,
                 originalPositions, explosionVectors, originalMaterials, modelSize,
                 markerVars, source, requestLog, appliedLog, dragLog>>

\* handleClick(e) with another button: returns after stopPropagation.
\* A handler without the test of e.button: any button stores the point hit.
HandleButtonUnchecked(button, obj) ==
  /\ mv = "mounted" /\ obj \in Indices(scene)
  /\ button # 0 /\ measureMode
  /\ measurePoints' = addMeasurePoint(measurePoints,
                         [point |-> scene[obj].position, localPoint |-> Zero3,
                          objectUuid |-> scene[obj].uuid, normal |-> FaceNormal])
  /\ lastOp' = "otherButton"
  /\ UNCHANGED <<measureMode, colorMode, explodeMode, requestedView, requestedColor,
                 modelRotation, canvasVars, viewerVars, markerVars, source, historyVars>>
\* if (e.button !== 0) return;
HandleOtherButton(button, obj) ==
  /\ mv = "mounted" /\ obj \in Indices(scene)
  /\ button # 0
  /\ lastOp' = "otherButton"
  /\ UNCHANGED <<storeVars, canvasVars, viewerVars, markerVars, source, historyVars>>

\* clearMeasurePoints taken from the store: calling a key the store does not
\* define throws a TypeError and leaves the store as it is.
clearMeasurePoints(points) ==
  IF "clearMeasurePoints" \in StoreKeys THEN <<>> ELSE points

\* Canvas onPointerMissed.
PointerMissed ==
  /\ measurePoints' = IF measureMode THEN clearMeasurePoints(measurePoints)
                      ELSE measurePoints
  /\ clickLog' = IF measurePoints' = <<>> THEN <<>> ELSE clickLog
  /\ lastSnap' = IF measurePoints' = <<>> THEN <<>> ELSE lastSnap
  /\ lastOp' = "pointerMissed"
  /\ UNCHANGED <<measureMode, colorMode, explodeMode, requestedView, requestedColor,
                 modelRotation, canvasVars, viewerVars, markerVars, source, requestLog,
                 appliedLog, dragLog>>


(***************************************************************************)
(* The render tick                                                         *)
(***************************************************************************)
\* One frame: the useFrame callbacks in the order they subscribed
\* (MeasurementMarkers mounts with the Canvas, ModelViewer when its asset has
\* loaded), then the label effect of the render that setCurrentWorldPoints
\* schedules.
Tick ==
  /\ cameraControls
  /\ LET world == WorldPoints(measurePoints, scene, sceneHelpersRef, gen)
     IN /\ currentWorldPoints' = world
        /\ labels' = IF measurePoints = <<>> /\ currentWorldPoints = <<>>
                       THEN labels ELSE LabelsOf(world)
  /\ scene' = IF Initialized
                THEN ExplodeStep(scene, explodeMode, modelSize, originalPositions,
                                 explosionVectors)
                ELSE scene
  /\ lastOp' = "tick"
  /\ UNCHANGED <<storeVars, canvasVars, mv, gen, isInitialized, originalPositions,
                 explosionVectors, originalMaterials, modelSize, selectedFaceVerts,
                 source, historyVars>>

(***************************************************************************)
(* Canonical views                                                         *)
(***************************************************************************)
\* A view table whose every entry is the front view.
ViewOffsetFront(view) == <<0, 0, 10000>>
\* The local offset (in 1/10000) and up vector of a view.
ViewOffset(view) ==
  CASE view = "front" -> <<0, 0, 10000>>
    [] view = "back" -> <<0, 0, -10000>>
    [] view = "left" -> <<-10000, 0, 0>>
    [] view = "right" -> <<10000, 0, 0>>
    [] view = "top" -> <<0, 10000, 1>>
    [] view = "bottom" -> <<0, -10000, 1>>
ViewUp(view) ==
  CASE view = "top" -> <<0, 0, -1>>
    [] view = "bottom" -> <<0, 0, 1>>
    [] OTHER -> <<0, 1, 0>>
\* applyQuaternion for a rotation of `turns` quarter turns about Y.
RECURSIVE RotateY(_, _)
RotateY(v, turns) ==
  IF turns = 0 THEN v ELSE RotateY(<<v[3], v[2], -v[1]>>, turns - 1)
\* A fit distance taken as computed, without the fallbacks.
ViewDistanceUnchecked(size) == (((size * 1000000) \div (2 * TanHalfFovMicro)) * 3) \div 2
ViewDistance(size) ==
  LET s == IF size > 0 THEN size ELSE FallbackSize
      raw == (s * 1000000) \div (2 * TanHalfFovMicro)
  IN ((IF raw <= 0 THEN FallbackDistance ELSE raw) * 3) \div 2

\* handleViewChange(view): nothing without the camera handle; otherwise damping
\* and auto-rotation off, then the placement relative to the model's rotation.
ViewPlaced == cameraControls
\* A view change that leaves the controls as they are.
ControlsKept(c) == c
\* "1. Force Stability": enableDamping and autoRotate of the controls off.
ForceStability(c) == [c EXCEPT !.enableDamping = FALSE, !.autoRotate = FALSE]
handleViewChange(view) ==
  IF ~ViewPlaced
    THEN UNCHANGED <<camera, controls, autoRotate>>
    ELSE LET turns == IF mainModel.set THEN mainModel.turns ELSE 0
             offset == RotateY(ViewOffset(view), turns)
         IN /\ autoRotate' = FALSE
            /\ controls' = ForceStability(controls)
            /\ camera' = [position |-> VAdd(controls.target,
                                           VDiv(VScale(offset, ViewDistance(modelMaxDim)),
                                                10000)),
                          up |-> RotateY(ViewUp(view), turns)]

(***************************************************************************)
(* THREE.Spherical, handleCubeDrag                                         *)
(***************************************************************************)
RoundDiv(a, b) == IF a >= 0 THEN (a + b \div 2) \div b ELSE -((b \div 2 - a) \div b)
\* Math.cos on [0, PI/2] by its series in t = x^2.
CosQ(x) ==
  LET t == (x * x) \div AngleScale
      t2 == (t * t) \div AngleScale
      t3 == (t2 * t) \div AngleScale
      t4 == ((t3 \div 10) * t) \div (AngleScale \div 10)
  IN AngleScale - t \div 2 + t2 \div 24 - t3 \div 720 + t4 \div 40320
\* An angle brought into (-PI, PI].
RECURSIVE WrapAngle(_)
WrapAngle(a) ==
  IF a > Pi THEN WrapAngle(a - 2 * Pi)
  ELSE IF a <= -Pi THEN WrapAngle(a + 2 * Pi) ELSE a
Cos(a) ==
  LET x == Abs(WrapAngle(a))
  IN IF x <= HalfPi THEN CosQ(x) ELSE -CosQ(Pi - x)
Sin(a) == Cos(a - HalfPi)
\* Math.acos: the angle of [0, PI] whose cosine is c, by bisection.
RECURSIVE AcosSearch(_, _, _)
AcosSearch(c, lo, hi) ==
  IF hi - lo <= 1 THEN (IF Cos(lo) - c <= c - Cos(hi) THEN lo ELSE hi)
  ELSE LET mid == (lo + hi) \div 2
       IN IF Cos(mid) >= c THEN AcosSearch(c, mid, hi) ELSE AcosSearch(c, lo, mid)
Acos(c) == AcosSearch(c, 0, Pi)
Clamp(v, lo, hi) == Max(lo, Min(hi, v))
\* Math.atan2(x, z).
Atan2(x, z) ==
  LET h == RoundSqrt((x * x + z * z) * 100)
  IN IF h = 0 THEN 0
     ELSE LET base == Acos(Clamp(RoundDiv(z * 10 * AngleScale, h), -AngleScale, AngleScale))
          IN IF x >= 0 THEN base ELSE -base
\* Spherical.setFromVector3.
SetFromVector3(v) ==
  LET radius == RoundSqrt(LenSq(v))
  IN IF radius = 0 THEN [radius |-> 0, phi |-> 0, theta |-> 0]
     ELSE [radius |-> radius,
           phi |-> Acos(Clamp(RoundDiv(v[2] * AngleScale, radius), -AngleScale, AngleScale)),
           theta |-> Atan2(v[1], v[3])]
\* Vector3.setFromSpherical.
SetFromSpherical(sph) ==
  LET sinPhiRadius == (sph.radius * Sin(sph.phi)) \div 100
  IN <<RoundDiv(sinPhiRadius * Sin(sph.theta), 100 * AngleScale),
       RoundDiv(sph.radius * Cos(sph.phi), AngleScale),
       RoundDiv(sinPhiRadius * Cos(sph.theta), 100 * AngleScale)>>

\* A polar angle left as the drag made it.
PolarUnclamped(phi) == phi
\* spherical.phi = Math.max(0.01, Math.min(Math.PI - 0.01, spherical.phi))
PolarClamp(phi) == Clamp(phi, PolarMargin, Pi - PolarMargin)

\* handleCubeDrag({dx, dy}): the camera's offset from the orbit target in
\* spherical coordinates, turned by the drag, clamped, and written back.
handleCubeDrag(dx, dy) ==
  /\ cameraControls
  /\ Len(dragLog) < MaxDrags
  /\ LET offset == VSub(camera.position, controls.target)
         spherical == SetFromVector3(offset)
         turned == [spherical EXCEPT !.theta = @ - dx * RotSpeed,
                                     !.phi = PolarClamp(@ - dy * RotSpeed)]
     IN /\ camera' = [camera EXCEPT
                        !.position = VAdd(controls.target, SetFromSpherical(turned))]
        /\ dragLog' = Append(dragLog, turned)
  /\ lastOp' = "cubeDrag"
  /\ UNCHANGED <<storeVars, modelUrl, cameraControls, controls, mainModel, modelMaxDim,
                 initialCameraSet, autoRotate, sceneHelpersRef, hasError, viewerVars,
                 markerVars, source, clickLog, lastSnap, requestLog, appliedLog>>

\* OrbitControls wheel zoom: the camera moves along its line to the target, here
\* to twice or to half the distance.
Dolly(out) ==
  /\ cameraControls
  /\ LET offset == VSub(camera.position, controls.target)
         moved == IF out THEN VScale(offset, 2) ELSE VDiv(offset, 2)
     IN /\ LenSq(moved) >= MinCameraDistance * MinCameraDistance
        /\ LenSq(moved) <= MaxCameraDistance * MaxCameraDistance
        /\ camera' = [camera EXCEPT !.position = VAdd(controls.target, moved)]
  /\ lastOp' = "dolly"
  /\ UNCHANGED <<storeVars, modelUrl, cameraControls, controls, mainModel, modelMaxDim,
                 initialCameraSet, autoRotate, sceneHelpersRef, hasError, viewerVars,
                 markerVars, source, historyVars>>

\* CameraController's effect on [modelMaxDim], for a size given in 1/LengthUnit
\* of a scene unit: minDistance = size / 10000, raised to 0.01, and
\* maxDistance = size * 100.
ZoomLimits(size) ==
  LET minDistance == size \div MinDistanceDivisor
  IN [minDistance |-> IF minDistance < MinDistanceFloor THEN MinDistanceFloor
                      ELSE minDistance,
      maxDistance |-> size * MaxDistanceFactor]
ZoomLimitsEffect(size) ==
  /\ cameraControls /\ size > 0
  /\ controls' = [controls EXCEPT !.minDistance = ZoomLimits(size).minDistance,
                                  !.maxDistance = ZoomLimits(size).maxDistance]
  /\ lastOp' = "zoomLimits"
  /\ UNCHANGED <<storeVars, modelUrl, cameraControls, camera, mainModel, modelMaxDim,
                 initialCameraSet, autoRotate, sceneHelpersRef, hasError, viewerVars,
                 markerVars, source, historyVars>>

\* The user starts to orbit: OrbitControls dispatches 'start', to which this
\* ThreeCanvas has no listener.
OrbitStart ==
  /\ cameraControls
  /\ lastOp' = "orbitStart"
  /\ UNCHANGED <<storeVars, canvasVars, viewerVars, markerVars, source, historyVars>>

\* The drags tried, in pixels <<dx, dy>>: sideways and a little up, and far
\* enough up or down to pass a pole.
DragDeltas == {<<40, 20>>, <<0, 200>>, <<-30, -200>>}

\* ChatPanel "<direction> view": setRequestedView.  React commits the render and
\* runs the effect below before the next command is handled.
SetRequestedView(view) ==
  /\ requestedView = Null
  /\ Len(requestLog) < MaxRequests
  /\ requestedView' = view
  /\ requestLog' = Append(requestLog, view)
  /\ lastOp' = "setRequestedView"
  /\ UNCHANGED <<measureMode, measurePoints, colorMode, explodeMode, requestedColor,
                 modelRotation, canvasVars, viewerVars, markerVars, source, clickLog,
                 lastSnap, appliedLog, dragLog>>

\* The requestedView effect of ThreeCanvas.
RequestedViewEffect ==
  /\ requestedView # Null
  /\ handleViewChange(requestedView)
  /\ requestedView' = Null
  /\ appliedLog' = IF ViewPlaced THEN Append(appliedLog, requestedView) ELSE appliedLog
  /\ lastOp' = "viewEffect"
  /\ UNCHANGED <<measureMode, measurePoints, colorMode, explodeMode, requestedColor,
                 modelRotation, modelUrl, cameraControls, mainModel, modelMaxDim,
                 initialCameraSet, sceneHelpersRef, hasError, viewerVars, markerVars,
                 source, clickLog, lastSnap, requestLog, dragLog>>


(***************************************************************************)
(* A backend result: ChatPanel's mode handling, setLatestResult, and the   *)
(* latestResult and modelUrl effects of ThreeCanvas                        *)
(***************************************************************************)
ResultModes == {"none", "explode", "apply_colors"}
ResultUrls == Urls \cup {Null, Undefined}

\* A test of the URL's truthiness: a result that clears the model is let through.
HasTruthyGlbUrl(url) == url \notin {Undefined, Null}
\* latestResult && latestResult.glb_url !== undefined
HasGlbUrl(url) == url # Undefined
NewResult(mode, url) ==
  LET reset == HasGlbUrl(url)
      change == reset /\ url # modelUrl
      explode == explodeMode \/ mode = "explode"
      color == colorMode \/ mode = "apply_colors"
  IN /\ explodeMode' = IF reset THEN FALSE ELSE explode
     /\ colorMode' = IF reset THEN FALSE ELSE color
     /\ measureMode' = IF reset THEN FALSE ELSE measureMode
     /\ measurePoints' = IF reset THEN <<>> ELSE measurePoints
     /\ clickLog' = IF reset THEN <<>> ELSE clickLog
     /\ lastSnap' = IF reset THEN <<>> ELSE lastSnap
     /\ modelUrl' = IF change THEN url ELSE modelUrl
     /\ IF change
          THEN /\ Unmounted
               /\ mv' = IF url = Null THEN "none"
                        ELSE IF hasError THEN "error" ELSE "loading"
               /\ hasError' = IF url = Null THEN FALSE ELSE hasError
               /\ autoRotate' = (url = DefaultUrl)
               /\ controls' = IF cameraControls
                                THEN [controls EXCEPT !.autoRotate = (url = DefaultUrl)]
                                ELSE controls
               /\ initialCameraSet' = FALSE
          ELSE /\ IF reset
                    THEN scene' = IF color /\ Initialized
                                    THEN ColorEffect(scene, FALSE, requestedColor, <<>>,
                                                     originalMaterials)
                                    ELSE scene
                    ELSE ColorChange(color, requestedColor)
               /\ UNCHANGED <<mv, hasError, autoRotate, controls, initialCameraSet,
                              isInitialized, originalPositions, explosionVectors,
                              originalMaterials, modelSize, selectedFaceVerts>>
     /\ source' = SourceAfter(scene')
     /\ lastOp' = "newResult"
     /\ UNCHANGED <<requestedView, requestedColor, modelRotation, cameraControls,
                    camera, mainModel, modelMaxDim, sceneHelpersRef, gen, markerVars,
                    requestLog, appliedLog, dragLog>>

(***************************************************************************)
(* Specifications                                                          *)
(***************************************************************************)
Load == ModelViewerMount \/ ModelViewerLoadError \/ ModelViewerEffects
Ready == CameraControlsReady \/ HandleModelReady
Measure ==
  \/ \E active \in BOOLEAN : SetMeasureMode(active)
  \/ \E button \in Buttons, hit \in Hits : HandleClick(button, hit[1], hit[2])
  \/ \E button \in Buttons, hit \in Hits : HandleOtherButton(button, hit[1])
  \/ PointerMissed
View ==
  \/ \E view \in Views : SetRequestedView(view)
  \/ RequestedViewEffect
  \/ \E out \in BOOLEAN : Dolly(out)
  \/ OrbitStart
  \/ \E d \in DragDeltas : handleCubeDrag(d[1], d[2])
  \/ ZoomLimitsEffect(modelMaxDim * LengthUnit)
Explode == \E active \in BOOLEAN : SetExplodeMode(active)
Color ==
  \/ \E active \in BOOLEAN : SetColorMode(active)
  \/ \E rc \in RequestedColors \cup {NoColor} : SetRequestedColor(rc)
Result == \E mode \in ResultModes, url \in ResultUrls : NewResult(mode, url)
Rotate == \E turns \in 0..3 : SetModelRotation(turns)

Next == Load \/ Ready \/ Measure \/ View \/ Explode \/ Color \/ Result \/ Rotate \/ Tick
Spec == Init /\ [][Next]_vars

\* The measurement tool on the default model.
NextMeasure ==
  \/ ModelViewerMount
  \/ ModelViewerEffects
  \/ CameraControlsReady
  \/ HandleModelReady
  \/ \E active \in BOOLEAN : SetMeasureMode(active)
  \/ \E button \in Buttons, hit \in Hits : HandleClick(button, hit[1], hit[2])
  \/ \E button \in Buttons, hit \in Hits : HandleOtherButton(button, hit[1])
  \/ PointerMissed
  \/ Tick
SpecMeasure == Init /\ [][NextMeasure]_vars

C2_CapacityThree ==
  /\ Len(measurePoints) <= 3
  /\ Len(clickLog) \in 1..3 => measurePoints = clickLog

\* C3: labels - none for 0 or 1 points, a distance label for 2 points, a
\* distance label and a circle-diameter label for 3 points that form a
\* non-degenerate triangle (read after the frame that derives them).
HasLabel(kind) == \E k \in 1..Len(labels) : labels[k].kind = kind
NonDegenerate(pts) ==
  HeronSq(DistSq(pts[1].point, pts[2].point), DistSq(pts[2].point, pts[3].point),
          DistSq(pts[3].point, pts[1].point)) > 0
C3_LabelsByPointCount ==
  lastOp = "tick" =>
    /\ Len(clickLog) \in {0, 1} => labels = <<>>
    /\ Len(clickLog) = 2 => HasLabel("distance")
    /\ Len(clickLog) = 3 /\ NonDegenerate(clickLog) =>
         HasLabel("distance") /\ HasLabel("diameter")

\* C4: the buffer is empty right after setMeasureMode(false) and right after a
\* pointer miss that happens while measurement mode is active.
C4_ClearedBufferIsEmpty ==
  /\ lastOp = "setMeasureMode" /\ ~measureMode => measurePoints = <<>>
  /\ lastOp = "pointerMissed" /\ measureMode => measurePoints = <<>>

\* The view commands while the viewer starts up.
NextView ==
  \/ ModelViewerMount
  \/ ModelViewerEffects
  \/ CameraControlsReady
  \/ HandleModelReady
  \/ \E view \in Views : SetRequestedView(view)
  \/ RequestedViewEffect
SpecView == Init /\ [][NextView]_vars

(***************************************************************************)
(* View requests                                                           *)
(***************************************************************************)
\* C5: every view request written to requestedView is consumed exactly once -
\* its camera placement is performed once and requestedView is null afterwards;
\* none is applied twice, none is cleared without having been applied.
Pending == IF requestedView = Null THEN 0 ELSE 1
C5_EveryRequestAppliedOnce ==
  /\ Len(requestLog) >= Pending
  /\ appliedLog = SubSeq(requestLog, 1, Len(requestLog) - Pending)

\* Explode on the default model, frame by frame.
NextExplode ==
  \/ ModelViewerMount
  \/ ModelViewerEffects
  \/ CameraControlsReady
  \/ \E active \in BOOLEAN : SetExplodeMode(active)
  \/ Tick
SpecExplode == Init /\ [][NextExplode]_vars
\* The frame loop of the Canvas runs for as long as the page is shown.
SpecExplodeFair == SpecExplode /\ WF_vars(Tick)

\* Loading assets with any source material.
NextMaterial ==
  \/ ModelViewerMount
  \/ ModelViewerLoadError
  \/ ModelViewerEffects
  \/ \E active \in BOOLEAN : SetColorMode(active)
  \/ \E mode \in ResultModes, url \in ResultUrls : NewResult(mode, url)
SpecMaterial == InitAnyMaterial /\ [][NextMaterial]_vars

\* Explode, colour mode and new results together.
NextViewer ==
  \/ ModelViewerMount
  \/ ModelViewerLoadError
  \/ ModelViewerEffects
  \/ CameraControlsReady
  \/ \E active \in BOOLEAN : SetExplodeMode(active)
  \/ \E active \in BOOLEAN : SetColorMode(active)
  \/ \E rc \in RequestedColors \cup {NoColor} : SetRequestedColor(rc)
  \/ \E mode \in ResultModes, url \in ResultUrls : NewResult(mode, url)
  \/ Tick
SpecViewer == Init /\ [][NextViewer]_vars

\* Colour mode on one asset with any source material.
NextColor ==
  \/ ModelViewerMount
  \/ ModelViewerEffects
  \/ \E active \in BOOLEAN : SetColorMode(active)
  \/ \E rc \in RequestedColors \cup {NoColor} : SetRequestedColor(rc)
SpecColor == InitAnyMaterial /\ [][NextColor]_vars

(***************************************************************************)
(* Explode, materials, colour mode, caches                                 *)
(***************************************************************************)
Loaded == mv = "mounted" /\ isInitialized
SourceOf(i) == source[modelUrl][i]
WithinEpsilon(p, q) == \A k \in 1..3 : Abs(p[k] - q[k]) <= Epsilon
BaselinePosition(i) ==
  IF scene[i].uuid \in DOMAIN originalPositions
    THEN originalPositions[scene[i].uuid] ELSE SourceOf(i).position
AtBaseline ==
  \A i \in Indices(scene) : WithinEpsilon(scene[i].position, BaselinePosition(i))

\* C6: with explode switched off, every mesh eventually comes within epsilon of
\* the baseline position captured at load (unless explode is switched on
\* again), and once there it stays there for as long as explode is off.
C6_ExplodeOffReturnsToBaseline ==
  /\ (~explodeMode) ~> (explodeMode \/ AtBaseline)
  /\ [][(~explodeMode /\ AtBaseline /\ ~explodeMode') => AtBaseline']_vars
\* A frame with explode off has left a mesh that was further away exactly
\* epsilon from its baseline.
C6_BackWithinEpsilon ==
  /\ Loaded /\ ~explodeMode /\ lastOp = "tick" /\ AtBaseline
  /\ \E i \in Indices(scene), k \in 1..3 :
       Abs(scene[i].position[k] - BaselinePosition(i)[k]) = Epsilon

\* C7: after normalization every mesh has opacity 0.9, is double-sided, has
\* metalness <= 0.6 and roughness >= 0.3, whatever the source material.
C7_NormalizedMaterialLimits ==
  Loaded =>
    \A i \in Indices(scene) :
      /\ scene[i].material.opacity = Opacity
      /\ scene[i].material.side = "double"
      /\ scene[i].material.pbr =>
           /\ scene[i].material.metalness <= MetalnessValue
           /\ scene[i].material.roughness >= RoughnessValue

\* C8: with colour mode restored (off) every mesh's colour equals the colour of
\* its baseline material captured at load, which is the colour the asset gave
\* it - after a requested-colour tint, a generated tint, any number of times.
C8_RestoredColorEqualsBaseline ==
  Loaded /\ ~colorMode =>
    \A i \in Indices(scene) :
      /\ scene[i].uuid \in DOMAIN originalMaterials
      /\ scene[i].material.color = originalMaterials[scene[i].uuid].color
      /\ originalMaterials[scene[i].uuid].color = SourceOf(i).material.color
\* Colour mode has just gone from tinted to restored on a loaded model.
C8_TintedThenRestored ==
  /\ Loaded /\ lastOp = "restore"
  /\ \A i \in Indices(scene) : scene[i].material.color = SourceOf(i).material.color

\* C9: once a load has completed with colour mode off, a mesh whose source
\* material is untextured and near-white shows the neutral gray.
NearWhiteUntextured(mat) ==
  ~mat.map /\ \A k \in 1..3 : mat.color[k] > NearWhite
C9_NearWhiteShowsGray ==
  Loaded /\ ~colorMode =>
    \A i \in Indices(scene) :
      NearWhiteUntextured(SourceOf(i).material) =>
        scene[i].material.color = <<GrayChannel, GrayChannel, GrayChannel>>

\* C10: the three per-node caches hold entries only for nodes of the asset
\* now mounted, and once it is initialized every entry is the one computed
\* from this asset - so no explode step or restore reads an older entry.
CloneOfSource == CloneScene(source[modelUrl], gen)
C10_CachesBelongToCurrentAsset ==
  /\ DOMAIN originalPositions \subseteq Uuids(scene)
  /\ DOMAIN explosionVectors \subseteq Uuids(scene)
  /\ DOMAIN originalMaterials \subseteq Uuids(scene)
  /\ Loaded =>
       \A i \in Indices(scene) :
         LET u == scene[i].uuid
         IN /\ u \in DOMAIN originalPositions
            /\ u \in DOMAIN explosionVectors
            /\ u \in DOMAIN originalMaterials
            /\ originalPositions[u] = SourceOf(i).position
            /\ originalMaterials[u] = SourceOf(i).material
            /\ explosionVectors[u] =
                 ExplosionVector(CloneOfSource[i], BoxCenter(SceneBox(CloneOfSource)))
\* A second asset has been loaded and initialized after the first.
C10_SecondAssetLoaded ==
  Loaded /\ gen >= 2 /\ modelUrl = OtherUrl /\ Len(scene) = 3

(***************************************************************************)
(* Frame logic, load failures, the source asset                            *)
(***************************************************************************)
\* The clone a new instance starts from: the asset as the catalogue holds it.
FreshClone == CloneScene(Catalogue(PlainMaterial)[modelUrl], gen)
\* C11: nothing is applied to an asset before its normalization pass has
\* completed - while the mounted clone is not initialized no explode step and
\* no colour refresh has touched it: it still equals the clone of the source.
C11_UntouchedBeforeInitialized ==
  mv = "mounted" /\ ~isInitialized => scene = FreshClone
\* A frame has run, with explode and colour mode on, on a clone whose
\* normalization pass has not run yet.
C11_FrameBeforeInitialized ==
  /\ mv = "mounted" /\ ~isInitialized
  /\ explodeMode /\ colorMode /\ lastOp = "tick"

\* Measuring while the model explodes: a hit inside a face of the first part,
\* one stored point at a time.
MarkerHits == {<<1, <<12, 12, 0>>>>}
NextMarkers ==
  \/ ModelViewerMount
  \/ ModelViewerEffects
  \/ CameraControlsReady
  \/ \E active \in BOOLEAN : SetMeasureMode(active)
  \/ /\ clickLog = <<>>
     /\ \E button \in Buttons, hit \in MarkerHits : HandleClick(button, hit[1], hit[2])
  \/ \E active \in BOOLEAN : SetExplodeMode(active)
  \/ Tick
SpecMarkers == Init /\ [][NextMarkers]_vars

\* The stored point k has its owning node in the scene that sceneRef holds.
OwnerFound(k) ==
  sceneHelpersRef = gen /\ measurePoints[k].objectUuid \in Uuids(scene)
\* C12: within a tick the explode interpolation comes before the measurement
\* re-derivation - the world position derived for a stored point in a tick is
\* its local point under the mesh position written by that tick's explode step.
C12_MarkersSeeSameTickExplode ==
  lastOp = "tick" /\ Len(currentWorldPoints) = Len(measurePoints) =>
    \A k \in 1..Len(measurePoints) :
      OwnerFound(k) =>
        currentWorldPoints[k] =
          VAdd(MeshOf(scene, measurePoints[k].objectUuid).position,
               measurePoints[k].localPoint)

\* C13: a failed load is terminal for the attempt - the error affordance is
\* shown, there is no scene for a frame to act on, and for as long as the same
\* URL is requested the viewer makes no further attempt.
C13_LoadFailureIsTerminal ==
  [][/\ mv' = "error" =>
          hasError' /\ scene' = <<>> /\ ~isInitialized'
            /\ DOMAIN originalPositions' = {}
     /\ mv = "error" /\ modelUrl' = modelUrl => mv' = "error"]_vars
\* A frame has run after the load of the requested URL failed.
C13_FrameAfterFailure ==
  mv = "error" /\ modelUrl = BadUrl /\ cameraControls /\ lastOp = "tick"

\* C14: a load failure is scoped to the failed asset - the error affordance is
\* shown only while the requested URL is the one whose load failed, so a new
\* URL that loads is displayed.
C14_ErrorOnlyForFailedAsset ==
  hasError => ~Loads(modelUrl)

\* C15: the source asset is never written - the scene graph the loader caches
\* for a URL keeps the positions and material properties it was loaded with,
\* and every instance mounted for that URL starts from the clone of that graph.
C15_SourceNeverMutated ==
  /\ source = Catalogue(PlainMaterial)
  /\ lastOp = "mount" => scene = FreshClone
\* The second instance of the default model, tinted and exploded away from
\* the source it was cloned from.
C15_SecondLoadTintedAndExploded ==
  /\ Initialized /\ gen = 2 /\ modelUrl = DefaultUrl /\ lastOp = "tick"
  /\ \E i \in Indices(scene) :
       /\ scene[i].position # source[modelUrl][i].position
       /\ scene[i].material.color # source[modelUrl][i].material.color
       /\ scene[i].material.opacity # source[modelUrl][i].material.opacity

(***************************************************************************)
(* Snapping                                                                *)
(***************************************************************************)
\* One measuring click on a face of the first part, at any zoom: the hits lie
\* on a vertex, on and next to the edges, and inside the face.
SnapCoords == {0, 1, 10, 11, 20, 38}
SnapHits == {<<1, <<x, y, 0>>>> : x \in SnapCoords, y \in SnapCoords}
NextSnap ==
  \/ ModelViewerMount
  \/ ModelViewerEffects
  \/ CameraControlsReady
  \/ HandleModelReady
  \/ \E out \in BOOLEAN : Dolly(out)
  \/ \E active \in BOOLEAN : SetMeasureMode(active)
  \/ /\ clickLog = <<>>
     /\ \E hit \in SnapHits :
          /\ hit[2][1] + hit[2][2] <= 40
          /\ HandleClick(0, hit[1], hit[2])
SpecSnap == Init /\ [][NextSnap]_vars

Min3(a, b, c) == Min(a, Min(b, c))
EdgePoints(p, v) ==
  <<ClosestOnSegment(p, v[1], v[2]), ClosestOnSegment(p, v[2], v[3]),
    ClosestOnSegment(p, v[3], v[1])>>
\* C16: the candidate of a snap is the nearest of the 3 vertices unless some
\* edge's clamped closest point is nearer than 0.9 times the nearest-vertex
\* distance; then it is the nearest of the 3 edge closest-points.
C16_NearestFeatureWithVertexBias ==
  lastSnap # <<>> =>
    LET p == lastSnap[1].point
        v == lastSnap[1].verts
        e == EdgePoints(p, v)
        vertexMin == Min3(DistSq(v[1], p), DistSq(v[2], p), DistSq(v[3], p))
        edgeMin == Min3(DistSq(e[1], p), DistSq(e[2], p), DistSq(e[3], p))
        edgeWins == \E k \in 1..3 : DistSq(e[k], p) * 100 * 100 < vertexMin * 90 * 90
    IN IF edgeWins
         THEN /\ \E k \in 1..3 : lastSnap[1].candidate.pt = e[k]
              /\ lastSnap[1].candidate.d2 = edgeMin
         ELSE /\ \E k \in 1..3 : lastSnap[1].candidate.pt = v[k]
              /\ lastSnap[1].candidate.d2 = vertexMin

\* C17: the click stores the snapped candidate exactly when the candidate is
\* nearer to the hit than 2% of the camera-to-hit distance, and the raw hit
\* otherwise; the snap radius is proportional to the camera distance.
C17_SnapWithinTwoPercent ==
  lastSnap # <<>> =>
    lastSnap[1].result =
      IF lastSnap[1].candidate.d2 * 50 * 50 < DistSq(lastSnap[1].cam, lastSnap[1].point)
        THEN lastSnap[1].candidate.pt ELSE lastSnap[1].point
\* A click that snapped to a feature away from the hit, and would not have at
\* half the camera distance.
C17_SnappedOnlyWhenZoomedOut ==
  /\ lastSnap # <<>> /\ lastOp = "click"
  /\ lastSnap[1].result = lastSnap[1].candidate.pt /\ lastSnap[1].result # lastSnap[1].point
  /\ lastSnap[1].candidate.d2 * 50 * 50 < DistSq(lastSnap[1].cam, lastSnap[1].point)
  /\ lastSnap[1].candidate.d2 * 100 * 100 >= DistSq(lastSnap[1].cam, lastSnap[1].point)

C19_MarkersFollowOwner ==
  [][lastOp' = "tick" =>
       /\ Len(currentWorldPoints') = Len(measurePoints)
       /\ \A k \in 1..Len(measurePoints) :
            currentWorldPoints'[k] =
              IF OwnerFound(k)
                THEN VAdd(MeshOf(scene, measurePoints[k].objectUuid).position,
                          measurePoints[k].localPoint)
                ELSE measurePoints[k].point
       /\ hasError' = hasError]_vars
\* A marker that has left its captured point with its exploding node.
C19_MarkerMovedWithNode ==
  /\ lastOp = "tick" /\ explodeMode /\ Len(measurePoints) = 1
  /\ Len(currentWorldPoints) = 1 /\ OwnerFound(1)
  /\ currentWorldPoints[1] # measurePoints[1].point

(***************************************************************************)
(* Canonical views and the orbit controls                                  *)
(***************************************************************************)
\* View requests with the user orbiting and zooming in between.
NextOrbit ==
  \/ ModelViewerMount
  \/ ModelViewerEffects
  \/ CameraControlsReady
  \/ HandleModelReady
  \/ \E view \in Views : SetRequestedView(view)
  \/ RequestedViewEffect
  \/ OrbitStart
  \/ \E out \in BOOLEAN : Dolly(out)
SpecOrbit == Init /\ [][NextOrbit]_vars

Direction(view) ==
  CASE view = "front" -> <<0, 0, 1>>
    [] view = "back" -> <<0, 0, -1>>
    [] view = "left" -> <<-1, 0, 0>>
    [] view = "right" -> <<1, 0, 0>>
    [] view = "top" -> <<0, 1, 0>>
    [] view = "bottom" -> <<0, -1, 0>>
ModelTurns == IF mainModel.set THEN mainModel.turns ELSE 0
NextCube ==
  \/ ModelViewerMount
  \/ ModelViewerEffects
  \/ CameraControlsReady
  \/ HandleModelReady
  \/ dragLog = <<>> /\ SetRequestedView("top")
  \/ RequestedViewEffect
  \/ \E d \in DragDeltas : handleCubeDrag(d[1], d[2])
SpecCube == Init /\ [][NextCube]_vars

\* The camera-to-target distance, and its change allowed for the rounding of
\* the position to the grid.
OrbitRadius(cam, ctl) == RoundSqrt(DistSq(cam.position, ctl.target))
DragTolerance == 2
UnitTolerance == 2
CentredOnAssembly(sc, i) == BoxCenter(MeshBox(sc[i])) = BoxCenter(SceneBox(sc))
\* C24: for every mesh node of an asset the explosion vector stored by the load
\* has unit length (100 in the fixed-point scale, up to the rounding of the
\* grid); a node whose bounding-box centre coincides with the assembly centre
\* holds the fallback direction (0,1,0) and not a zero vector; and the vectors
\* are computed once per load: every step that leaves the same instance
\* loaded leaves them as they are.
C24_ExplosionVectorsUnitAndStable ==
  [][Loaded' =>
       IF Loaded /\ gen' = gen
         THEN explosionVectors' = explosionVectors
         ELSE \A i \in Indices(scene') :
                LET v == explosionVectors'[scene'[i].uuid]
                IN /\ Abs(RoundSqrt(LenSq(v)) - 100) <= UnitTolerance
                   /\ CentredOnAssembly(FreshClone', i) => v = <<0, 100, 0>>]_vars
\* The three-part asset is loaded and exploded: its centred part has left its
\* baseline along the fallback direction.
C24_CentredPartExploded ==
  /\ Loaded /\ modelUrl = OtherUrl /\ explodeMode /\ lastOp = "tick"
  /\ \E i \in Indices(scene) :
       /\ CentredOnAssembly(FreshClone, i)
       /\ explosionVectors[scene[i].uuid] = <<0, 100, 0>>
       /\ scene[i].position[2] > FreshClone[i].position[2]

\* Loading and clicking an asset one of whose nodes lacks something.
NextGeometry ==
  \/ ModelViewerMount
  \/ ModelViewerEffects
  \/ CameraControlsReady
  \/ SetMeasureMode(TRUE)
  \/ \E button \in Buttons, hit \in Hits : HandleClick(button, hit[1], hit[2])
  \/ Tick
SpecGeometry == InitDefective /\ [][NextGeometry]_vars
StatedTarget(i) ==
  LET u == scene[i].uuid
      expansionDistance == IF explodeMode THEN modelSize \div 2 ELSE 0
  IN VAdd(originalPositions[u], VDiv(VScale(explosionVectors[u], expansionDistance), 100))
C27_OnlyQualifyingClicksStore ==
  [][(\/ lastOp' = "otherButton"
      \/ lastOp' \in {"click", "pointerMissed"} /\ ~measureMode)
       => measurePoints' = measurePoints]_vars
\* A non-primary click on the model in measure mode with one point stored.
C27_SecondaryClickWithPointStored ==
  lastOp = "otherButton" /\ measureMode /\ Len(measurePoints) = 1

\* Measuring on a model, then a result of the backend.
NextResult ==
  \/ ModelViewerMount
  \/ ModelViewerLoadError
  \/ ModelViewerEffects
  \/ SetMeasureMode(TRUE)
  \/ SetExplodeMode(TRUE)
  \/ SetColorMode(TRUE)
  \/ \E hit \in MarkerHits : HandleClick(0, hit[1], hit[2])
  \/ \E mode \in ResultModes, url \in ResultUrls : NewResult(mode, url)
SpecResult == Init /\ [][NextResult]_vars
\* C28: whenever a result with a defined glb_url arrives (null included,
\* whatever its mode), the viewer ends with explodeMode, colorMode and
\* measureMode false and the measurement buffer empty; and every point stored
\* in the buffer refers to a node of the instance being displayed.
C28_NewAssetResetsModes ==
  [][/\ (\E mode \in ResultModes, url \in ResultUrls \ {Undefined} : NewResult(mode, url))
          => /\ ~explodeMode' /\ ~colorMode' /\ ~measureMode'
             /\ measurePoints' = <<>>
     /\ \A k \in 1..Len(measurePoints') :
          mv' = "mounted" /\ measurePoints'[k].objectUuid \in Uuids(scene')]_vars
\* A result has replaced the asset, and a point has since been measured on the
\* new asset: the buffer holds that point alone, on a node of the new instance.
C28_MeasuredOnReplacedAsset ==
  /\ modelUrl = OtherUrl /\ gen = 2 /\ Loaded /\ measureMode
  /\ Len(measurePoints) = 1 /\ measurePoints[1].objectUuid = scene[1].uuid

\* Assets replacing one another, the model reporting ready at any time, the
\* user zooming in between.
NextFit ==
  \/ ModelViewerMount
  \/ ModelViewerLoadError
  \/ ModelViewerEffects
  \/ CameraControlsReady
  \/ HandleModelReady
  \/ \E out \in BOOLEAN : Dolly(out)
  \/ \E url \in ResultUrls : NewResult("none", url)
SpecFit == Init /\ [][NextFit]_vars
ZoomSizes == (1..120) \cup {999, 1000, 100000, 9999999, 10000000, 20000000}
NextZoom ==
  \/ CameraControlsReady
  \/ \E size \in ZoomSizes : ZoomLimitsEffect(size)
SpecZoom == Init /\ [][NextZoom]_vars
====
